---- MODULE Spec2Model ----
(***************************************************************************)
(* Request handlers of remix-ginnan-stack:                                 *)
(*   - the profile-edit route   app/routes/users+/$userId_.edit.tsx        *)
(*     (loader and action),                                                *)
(*   - the user-detail route    (loader),                                  *)
(*   - the signup route         (action) with signInWithGoogle.            *)
(* One request is handled at a time; every await of a handler is a step.   *)
(* The identity provider and the backend API are the environment: what     *)
(* they answer is chosen with \E from small sets.                          *)
(***************************************************************************)
EXTENDS Naturals, Sequences, FiniteSets

VARIABLES
    handler,      \* which handler runs the current request
    pc,           \* its position
    request,      \* params.userId, Cookie header, form fields
    user,         \* data.user of client.auth.getUser()
    sessHeaders,  \* Set-Cookie carried by the headers createSupabaseServerClient returns
    authChecked,  \* the `!user || user.id !== userId` test has been evaluated
    calls,        \* backend API calls issued for this request, in order
    response,     \* the Response of the PATCH call (its ok flag)
    userData,     \* decoded payload of the /users/:userId call
    postsData,    \* decoded payload of the /users/:userId/posts call
    searchParams, \* the URLSearchParams the user-detail loader builds
    caught,       \* the value caught by the action's catch clause
    signIn,       \* what signInWithGoogle returned
    outcome       \* what the handler returned or threw

vars == <<handler, pc, request, user, sessHeaders, authChecked, calls, response,
          userData, postsData, searchParams, caught, signIn, outcome>>

-----------------------------------------------------------------------------
(* Bounds of the model *)

NumIds == 2
NumMsgs == 2
NumCookies == 1

IdPool == <<"123", "456", "789", "1000">>
MsgPool == <<"name required", "boom", "db down", "timeout">>
CookiePool == <<"sb-token=a", "sb-token=b", "sb-token=c">>

Ids == {IdPool[i] : i \in 1..NumIds}
Msgs == {MsgPool[i] : i \in 1..NumMsgs}
Cookies == {CookiePool[i] : i \in 1..NumCookies}

-----------------------------------------------------------------------------
(* JavaScript values *)

Null == "<null>"
Undefined == "<undefined>"

Codes == {"NotFoundError", "ValidationError"}

\* A decoded JSON payload: null, an array, or an object with some of the
\* fields code, message, error (Undefined: the object has no such field).
NoPayload == [tag |-> "none", code |-> Undefined, message |-> Undefined, error |-> Undefined]
NullPayload == [tag |-> "null", code |-> Undefined, message |-> Undefined, error |-> Undefined]
ArrayPayload == [tag |-> "array", code |-> Undefined, message |-> Undefined, error |-> Undefined]
ObjectPayloads ==
    [tag : {"object"}, code : Codes \cup {Undefined},
     message : Msgs \cup {Undefined}, error : Msgs \cup {Undefined}]
Payloads == {NullPayload, ArrayPayload} \cup ObjectPayloads

\* A thrown value: an Error with a message, or something that is no Error.
NoException == [isError |-> FALSE, message |-> "<none>"]
Exceptions == [isError : {TRUE}, message : Msgs] \cup {[isError |-> FALSE, message |-> Undefined]}

Names == {"", "Aya"}
Bios == {Null, "hello"}
Providers == {"google", "github", Null}
Urls == {"https://accounts.google.com/o/oauth2"}

NoJson == [name |-> Undefined, bio |-> Undefined]
NoResponse == [ok |-> FALSE, received |-> FALSE]
NoSignIn == [error |-> "", url |-> Undefined, headers |-> Undefined]

-----------------------------------------------------------------------------
(* Helpers of the handlers *)

\* isApiError: typeof response === "object" && response !== null && "code" in response
isApiError(resp) ==
    /\ resp.tag \in {"object", "array"}
    /\ resp.code # Undefined

\* Variant: the user-detail route tests for "code" as the edit route does.
isErrorResponse_CodeOnly(resp) ==
    /\ resp.tag \in {"object", "array"}
    /\ resp.code # Undefined

\* isErrorResponse: "error" in response.  The `in` operator throws a
\* TypeError when its right operand is no object (null).
isErrorResponseThrows(resp) == resp.tag = "null"

isErrorResponse(resp) ==
    /\ resp.tag \in {"object", "array"}
    /\ resp.error # Undefined

\* new Error(m).message: an undefined argument gives the empty message.
ErrorMessage(m) == IF m = Undefined THEN "" ELSE m

\* v || "" on a header value.
OrEmpty(v) == IF v = Null \/ v = Undefined \/ v = "" THEN "" ELSE v

\* The outcomes of a handler.
NoOutcome ==
    [kind |-> "none", prefix |-> "", message |-> Undefined, location |-> <<>>,
     setCookie |-> Undefined, pageUser |-> NoPayload, postsData |-> NoPayload]

\* throw new Error(prefix + message), or a thrown value propagating
Thrown(prefix, m) == [NoOutcome EXCEPT !.kind = "throw", !.prefix = prefix, !.message = m]

\* redirect(location, { headers: { "Set-Cookie": setCookie } })
Redirect(location, setCookie) ==
    [NoOutcome EXCEPT !.kind = "redirect", !.location = location, !.setCookie = setCookie]

\* return { error: m }
FormError(m) == [NoOutcome EXCEPT !.kind = "error", !.message = m]

\* return { pageUser, postsData }
Rendered(pageUser, posts) ==
    [NoOutcome EXCEPT !.kind = "data", !.pageUser = pageUser, !.postsData = posts]

\* A backend call through the API client.
GetUserCall(userId) ==
    [method |-> "GET", path |-> <<"users", userId>>, query |-> {}, json |-> NoJson]

PatchUserCall(userId, name, bio) ==
    [method |-> "PATCH", path |-> <<"users", userId>>, query |-> {},
     json |-> [name |-> name, bio |-> bio]]

\* apiClient.api.users[":userId"].posts.$get({ param: { userId } }): the
\* call is given the path parameter only.
GetPostsCall(userId, params) ==
    [method |-> "GET", path |-> <<"users", userId, "posts">>, query |-> {}, json |-> NoJson]

\* What getUser() can resolve: an identity, or none (data.user is null).
Identities == Ids \cup {Null}

\* The Set-Cookie the resolver's headers carry (none, or a refreshed session).
SessionHeaders == {Undefined, "sb-token=refreshed"}

-----------------------------------------------------------------------------
(* Requests *)

Handlers == {"editLoader", "editAction", "detailLoader", "signupAction"}

Requests(h) ==
    [userId : IF h = "signupAction" THEN {Undefined} ELSE Ids \cup {Undefined},
     cookie : Cookies \cup {Null},
     name : IF h = "editAction" THEN Names ELSE {Null},
     bio : IF h = "editAction" THEN Bios ELSE {Null},
     provider : IF h = "signupAction" THEN Providers ELSE {Null}]

Init ==
    /\ handler = "none"
    /\ pc = "idle"
    /\ request = [userId |-> Undefined, cookie |-> Null, name |-> Null, bio |-> Null,
                  provider |-> Null]
    /\ user = Null
    /\ sessHeaders = Undefined
    /\ authChecked = FALSE
    /\ calls = <<>>
    /\ response = NoResponse
    /\ userData = NoPayload
    /\ postsData = NoPayload
    /\ searchParams = {}
    /\ caught = NoException
    /\ signIn = NoSignIn
    /\ outcome = NoOutcome

\* The platform invokes a handler with a fresh request; nothing of the
\* previous request is kept.
Receive ==
    /\ pc \in {"idle", "done"}
    /\ \E h \in Handlers : \E req \in Requests(h) :
          /\ handler' = h
          /\ request' = req
    /\ pc' = "start"
    /\ user' = Null
    /\ sessHeaders' = Undefined
    /\ authChecked' = FALSE
    /\ calls' = <<>>
    /\ response' = NoResponse
    /\ userData' = NoPayload
    /\ postsData' = NoPayload
    /\ searchParams' = {}
    /\ caught' = NoException
    /\ signIn' = NoSignIn
    /\ outcome' = NoOutcome

\* The handler ends with outcome o.
Finish(o) ==
    /\ outcome' = o
    /\ pc' = "done"

\* if (!userId) throw new Error("User ID is required")
CheckUserId(h) ==
    /\ handler = h
    /\ pc = "start"
    /\ IF request.userId = Undefined \/ request.userId = ""
         THEN Finish(Thrown("", "User ID is required"))
         ELSE /\ pc' = "getUser"
              /\ UNCHANGED outcome
    /\ UNCHANGED <<handler, request, user, sessHeaders, authChecked, calls, response,
                   userData, postsData, searchParams, caught, signIn>>

\* const { client } = createSupabaseServerClient(request, context);
\* const { data: { user } } = await client.auth.getUser();
GetUser(h, next) ==
    /\ handler = h
    /\ pc = "getUser"
    /\ \E u \in Identities : user' = u
    /\ \E hd \in SessionHeaders : sessHeaders' = hd
    /\ pc' = next
    /\ UNCHANGED <<handler, request, authChecked, calls, response, userData, postsData,
                   searchParams, caught, signIn, outcome>>

\* Variant: the check tests only that an identity is present.
Authorize_NoIdCheck(h, next) ==
    /\ handler = h
    /\ pc = "authorize"
    /\ authChecked' = TRUE
    /\ IF user = Null
         THEN Finish(Thrown("", "Unauthorized"))
         ELSE /\ pc' = next
              /\ UNCHANGED outcome
    /\ UNCHANGED <<handler, request, user, sessHeaders, calls, response, userData,
                   postsData, searchParams, caught, signIn>>

\* if (!user || user.id !== userId) throw new Error("Unauthorized")
Authorize(h, next) ==
    /\ handler = h
    /\ pc = "authorize"
    /\ authChecked' = TRUE
    /\ IF user = Null \/ user # request.userId
         THEN Finish(Thrown("", "Unauthorized"))
         ELSE /\ pc' = next
              /\ UNCHANGED outcome
    /\ UNCHANGED <<handler, request, user, sessHeaders, calls, response, userData,
                   postsData, searchParams, caught, signIn>>

-----------------------------------------------------------------------------
(* users+/$userId_.edit.tsx: loader *)

EditLoader_CheckUserId == CheckUserId("editLoader")

EditLoader_GetUser == GetUser("editLoader", "authorize")

EditLoader_Authorize == Authorize("editLoader", "fetchUser")

\* await apiClient.api.users[":userId"].$get(...); await userResponse.json()
\* Outside any try: what the call or the decoding throws propagates.
EditLoader_FetchUser ==
    /\ handler = "editLoader"
    /\ pc = "fetchUser"
    /\ calls' = Append(calls, GetUserCall(request.userId))
    /\ \/ \E e \in Exceptions :
             /\ Finish(Thrown("", e.message))
             /\ UNCHANGED userData
       \/ \E p \in Payloads :
             /\ userData' = p
             /\ pc' = "classifyUser"
             /\ UNCHANGED outcome
    /\ UNCHANGED <<handler, request, user, sessHeaders, authChecked, response, postsData,
                   searchParams, caught, signIn>>

\* Variant: the redirect is built without the cookie header.
EditLoader_Classify_NoCookie ==
    /\ handler = "editLoader"
    /\ pc = "classifyUser"
    /\ IF isApiError(userData)
         THEN IF userData.code = "NotFoundError"
                THEN Finish(Redirect(<<"complete-profile">>, Undefined))
                ELSE Finish(Thrown("", ErrorMessage(userData.message)))
         ELSE Finish(Rendered(userData, NoPayload))
    /\ UNCHANGED <<handler, request, user, sessHeaders, authChecked, calls, response,
                   userData, postsData, searchParams, caught, signIn>>

EditLoader_Classify ==
    /\ handler = "editLoader"
    /\ pc = "classifyUser"
    /\ IF isApiError(userData)
         THEN IF userData.code = "NotFoundError"
                THEN Finish(Redirect(<<"complete-profile">>, OrEmpty(request.cookie)))
                ELSE Finish(Thrown("", ErrorMessage(userData.message)))
         ELSE Finish(Rendered(userData, NoPayload))
    /\ UNCHANGED <<handler, request, user, sessHeaders, authChecked, calls, response,
                   userData, postsData, searchParams, caught, signIn>>

-----------------------------------------------------------------------------
(* users+/$userId_.edit.tsx: action *)

\* const formData = await request.formData(); name, bio; the userId check
EditAction_CheckUserId == CheckUserId("editAction")

EditAction_GetUser == GetUser("editAction", "authorize")

EditAction_Authorize == Authorize("editAction", "patch")

\* try { const response = await apiClient.api.users[":userId"].$patch(...)
EditAction_Patch ==
    /\ handler = "editAction"
    /\ pc = "patch"
    /\ calls' = Append(calls, PatchUserCall(request.userId, request.name, request.bio))
    /\ \/ \E e \in Exceptions :
             /\ caught' = e
             /\ pc' = "catch"
             /\ UNCHANGED response
       \/ \E ok \in BOOLEAN :
             /\ response' = [ok |-> ok, received |-> TRUE]
             /\ pc' = "json"
             /\ UNCHANGED caught
    /\ UNCHANGED <<handler, request, user, sessHeaders, authChecked, userData, postsData,
                   searchParams, signIn, outcome>>

\* const responseData: unknown = await response.json();
EditAction_Json ==
    /\ handler = "editAction"
    /\ pc = "json"
    /\ \/ \E e \in Exceptions :
             /\ caught' = e
             /\ pc' = "catch"
             /\ UNCHANGED userData
       \/ \E p \in Payloads :
             /\ userData' = p
             /\ pc' = "classifyUser"
             /\ UNCHANGED caught
    /\ UNCHANGED <<handler, request, user, sessHeaders, authChecked, calls, response,
                   postsData, searchParams, signIn, outcome>>

\* Variant: the payload of an ok response is not classified.
EditAction_Result_OkUnchecked(resp, responseData, userId) ==
    IF ~resp.ok
      THEN IF isApiError(responseData)
             THEN FormError(responseData.message)
             ELSE FormError("Failed to update profile")
      ELSE Redirect(<<"users", userId>>, Undefined)

\* The value the action returns for a decoded PATCH response.
EditAction_Result(resp, responseData, userId) ==
    IF ~resp.ok
      THEN IF isApiError(responseData)
             THEN FormError(responseData.message)
             ELSE FormError("Failed to update profile")
      ELSE IF isApiError(responseData)
             THEN FormError(responseData.message)
             ELSE Redirect(<<"users", userId>>, Undefined)

EditAction_Classify ==
    /\ handler = "editAction"
    /\ pc = "classifyUser"
    /\ Finish(EditAction_Result(response, userData, request.userId))
    /\ UNCHANGED <<handler, request, user, sessHeaders, authChecked, calls, response,
                   userData, postsData, searchParams, caught, signIn>>

\* Variant: the catch clause logs and rethrows.
EditAction_Catch_Rethrow ==
    /\ handler = "editAction"
    /\ pc = "catch"
    /\ Finish(Thrown("", caught.message))
    /\ UNCHANGED <<handler, request, user, sessHeaders, authChecked, calls, response,
                   userData, postsData, searchParams, caught, signIn>>

\* Variant: the catch clause always answers with the fallback message.
EditAction_Catch_Fallback ==
    /\ handler = "editAction"
    /\ pc = "catch"
    /\ Finish(FormError("Failed to update profile"))
    /\ UNCHANGED <<handler, request, user, sessHeaders, authChecked, calls, response,
                   userData, postsData, searchParams, caught, signIn>>

\* catch (error) { return { error: error instanceof Error ? error.message : "..." } }
EditAction_Catch ==
    /\ handler = "editAction"
    /\ pc = "catch"
    /\ Finish(FormError(IF caught.isError THEN caught.message
                                          ELSE "Failed to update profile"))
    /\ UNCHANGED <<handler, request, user, sessHeaders, authChecked, calls, response,
                   userData, postsData, searchParams, caught, signIn>>

-----------------------------------------------------------------------------
(* user-detail route: loader *)

DetailLoader_CheckUserId == CheckUserId("detailLoader")

DetailLoader_GetUser == GetUser("detailLoader", "fetchUser")

DetailLoader_FetchUser ==
    /\ handler = "detailLoader"
    /\ pc = "fetchUser"
    /\ calls' = Append(calls, GetUserCall(request.userId))
    /\ \/ \E e \in Exceptions :
             /\ Finish(Thrown("", e.message))
             /\ UNCHANGED userData
       \/ \E p \in Payloads :
             /\ userData' = p
             /\ pc' = "classifyUser"
             /\ UNCHANGED outcome
    /\ UNCHANGED <<handler, request, user, sessHeaders, authChecked, response, postsData,
                   searchParams, caught, signIn>>

\* Variant: a failed user lookup does not end the loader.
DetailLoader_ClassifyUser_NoThrow ==
    /\ handler = "detailLoader"
    /\ pc = "classifyUser"
    /\ pc' = "fetchPosts"
    /\ UNCHANGED outcome
    /\ UNCHANGED <<handler, request, user, sessHeaders, authChecked, calls, response,
                   userData, postsData, searchParams, caught, signIn>>

\* if (isErrorResponse(userData)) throw new Error("User not found")
DetailLoader_ClassifyUser ==
    /\ handler = "detailLoader"
    /\ pc = "classifyUser"
    /\ IF isErrorResponseThrows(userData)
         THEN Finish(Thrown("", "TypeError"))
         ELSE IF isErrorResponse(userData)
                THEN Finish(Thrown("", "User not found"))
                ELSE /\ pc' = "fetchPosts"
                     /\ UNCHANGED outcome
    /\ UNCHANGED <<handler, request, user, sessHeaders, authChecked, calls, response,
                   userData, postsData, searchParams, caught, signIn>>

\* const searchParams = new URLSearchParams(); publicOnly / currentUserId
BuildSearchParams(u) ==
    IF u = Null THEN {<<"publicOnly", "true">>} ELSE {<<"currentUserId", u>>}

\* searchParams is built, then the posts are fetched.
DetailLoader_FetchPosts ==
    /\ handler = "detailLoader"
    /\ pc = "fetchPosts"
    /\ searchParams' = BuildSearchParams(user)
    /\ calls' = Append(calls, GetPostsCall(request.userId, searchParams'))
    /\ \/ \E e \in Exceptions :
             /\ Finish(Thrown("", e.message))
             /\ UNCHANGED postsData
       \/ \E p \in Payloads :
             /\ postsData' = p
             /\ pc' = "classifyPosts"
             /\ UNCHANGED outcome
    /\ UNCHANGED <<handler, request, user, sessHeaders, authChecked, response, userData,
                   caught, signIn>>

\* if (isErrorResponse(data)) throw new Error(`Failed to fetch posts: ${data.error}`)
DetailLoader_ClassifyPosts ==
    /\ handler = "detailLoader"
    /\ pc = "classifyPosts"
    /\ IF isErrorResponseThrows(postsData)
         THEN Finish(Thrown("", "TypeError"))
         ELSE IF isErrorResponse(postsData)
                THEN Finish(Thrown("Failed to fetch posts: ", postsData.error))
                ELSE Finish(Rendered(userData, postsData))
    /\ UNCHANGED <<handler, request, user, sessHeaders, authChecked, calls, response,
                   userData, postsData, searchParams, caught, signIn>>

-----------------------------------------------------------------------------
(* signup route: action, and signInWithGoogle of auth.server *)

\* if (provider === "google") ... ; return { error: "Invalid provider" }
SignupAction_Provider ==
    /\ handler = "signupAction"
    /\ pc = "start"
    /\ IF request.provider = "google"
         THEN /\ pc' = "signIn"
              /\ UNCHANGED outcome
         ELSE Finish(FormError("Invalid provider"))
    /\ UNCHANGED <<handler, request, user, sessHeaders, authChecked, calls, response,
                   userData, postsData, searchParams, caught, signIn>>

\* What signInWithGoogle returns for the provider's { data, error }:
\* error: error && !data ? error.message : "", data, headers: supabase.headers
signInWithGoogle(dataIsNull, url, err, hd) ==
    [error |-> IF err # Null /\ dataIsNull THEN err ELSE "",
     url |-> IF dataIsNull THEN Undefined ELSE url,
     headers |-> hd]

SignupAction_SignIn ==
    /\ handler = "signupAction"
    /\ pc = "signIn"
    /\ \E hd \in SessionHeaders, dataIsNull \in BOOLEAN, url \in Urls \cup {Null},
          err \in Msgs \cup {Null} :
          /\ sessHeaders' = hd
          /\ signIn' = signInWithGoogle(dataIsNull, url, err, hd)
    /\ pc' = "result"
    /\ UNCHANGED <<handler, request, user, authChecked, calls, response, userData,
                   postsData, searchParams, caught, outcome>>

\* if (!error && data?.url) return redirect(data.url, { headers });
\* return { error: error || <fallback> }
SignupAction_Result ==
    /\ handler = "signupAction"
    /\ pc = "result"
    /\ IF signIn.error = "" /\ signIn.url \notin {Undefined, Null, ""}
         THEN Finish(Redirect(<<signIn.url>>, signIn.headers))
         ELSE Finish(FormError(IF signIn.error = "" THEN "Account creation failed"
                                                    ELSE signIn.error))
    /\ UNCHANGED <<handler, request, user, sessHeaders, authChecked, calls, response,
                   userData, postsData, searchParams, caught, signIn>>

-----------------------------------------------------------------------------

Next ==
    \/ Receive
    \/ EditLoader_CheckUserId
    \/ EditLoader_GetUser
    \/ EditLoader_Authorize
    \/ EditLoader_FetchUser
    \/ EditLoader_Classify
    \/ EditAction_CheckUserId
    \/ EditAction_GetUser
    \/ EditAction_Authorize
    \/ EditAction_Patch
    \/ EditAction_Json
    \/ EditAction_Classify
    \/ EditAction_Catch
    \/ DetailLoader_CheckUserId
    \/ DetailLoader_GetUser
    \/ DetailLoader_FetchUser
    \/ DetailLoader_ClassifyUser
    \/ DetailLoader_FetchPosts
    \/ DetailLoader_ClassifyPosts
    \/ SignupAction_Provider
    \/ SignupAction_SignIn
    \/ SignupAction_Result

Spec == Init /\ [][Next]_vars

-----------------------------------------------------------------------------
(* Vocabulary of the properties *)

EditHandlers == {"editLoader", "editAction"}

\* The request went through the self-only check and passed it.
Authorized ==
    /\ request.userId # Undefined
    /\ user # Null
    /\ user = request.userId

\* The identity is absent or is not the subject of the path.
NotAuthorized == user = Null \/ user # request.userId

\* A payload carrying a generic error field.
GenericFailure(p) == p.tag = "object" /\ p.error # Undefined

\* A payload carrying the structured pair: a code (and its message).
StructuredFailure(p) == p.tag = "object" /\ p.code # Undefined

\* Failure of the outcome classification: either shape.
IsFailure(p) == GenericFailure(p) \/ StructuredFailure(p)

IsPostsCall(c) == c.method = "GET" /\ Len(c.path) = 3

Done(h) == handler = h /\ pc = "done"

-----------------------------------------------------------------------------
(* Properties *)

\* On the edit route, an identity that is absent or is not the path's
\* subject: no backend call, and the request ends with "Unauthorized".
C1_Rejected ==
    handler \in EditHandlers /\ NotAuthorized =>
        /\ calls = <<>>
        /\ pc = "done" /\ request.userId # Undefined => outcome = Thrown("", "Unauthorized")

\* A step of the edit route that issues a backend call starts in a state
\* where the authorization check has been made and has passed.
C1_CallAfterCheck ==
    handler \in EditHandlers /\ Len(calls') > Len(calls) => authChecked /\ Authorized

\* C1: on the self-only edit route (loader and action), a request whose
\* identity is absent or differs from the path userId issues no backend
\* call and ends with the error "Unauthorized"; a backend call is issued
\* only in a step taken after the authorization check has passed.
C1_RejectedBeforeBackend == []C1_Rejected /\ [][C1_CallAfterCheck]_vars

C1_Witness ==
    /\ Done("editAction")
    /\ request.userId # Undefined
    /\ user # Null
    /\ user # request.userId
    /\ authChecked
    /\ outcome.kind = "throw"

\* C2: every posts-list request of the user-detail loader carries
\* publicOnly=true when the identity is absent and currentUserId=<id>
\* when it is present.
C2_PostsQueryCarriesVisibility ==
    handler = "detailLoader" =>
        \A i \in 1..Len(calls) :
            IsPostsCall(calls[i]) =>
                IF user = Null
                  THEN <<"publicOnly", "true">> \in calls[i].query
                  ELSE <<"currentUserId", user>> \in calls[i].query

\* C3: no loader returns a Failure payload (of either shape) as pageUser
\* or postsData.
C3_NoFailureRendered ==
    outcome.kind = "data" =>
        /\ ~IsFailure(outcome.pageUser)
        /\ ~IsFailure(outcome.postsData)

C5_SessionHeadersOnEveryResponse ==
    pc = "done" /\ outcome.kind \in {"data", "redirect", "error"}
                /\ sessHeaders # Undefined
        => outcome.setCookie = sessHeaders

\* C6: in the edit loader, an authorized request whose user lookup answers
\* with code "NotFoundError" is redirected to /complete-profile with the
\* request's Cookie header (when it has one) as the cookie header value; a
\* failure with any other code is raised as an error carrying the failure's
\* message.
C6_NotFoundRedirects ==
    Done("editLoader") /\ StructuredFailure(userData) =>
        IF userData.code = "NotFoundError"
          THEN /\ outcome.kind = "redirect"
               /\ outcome.location = <<"complete-profile">>
               /\ request.cookie # Null => outcome.setCookie = request.cookie
          ELSE /\ outcome.kind = "throw"
               /\ userData.message # Undefined => outcome.message = userData.message

C6_Witness ==
    /\ Done("editLoader")
    /\ Authorized
    /\ userData.code = "NotFoundError"
    /\ request.cookie \in Cookies
    /\ outcome.kind = "redirect"
    /\ outcome.setCookie = request.cookie

C8_PostsErrorRaises ==
    handler = "detailLoader" /\ GenericFailure(postsData) =>
        /\ outcome.kind \in {"none", "throw"}
        /\ pc = "done" => outcome = Thrown("Failed to fetch posts: ", postsData.error)

C8_Witness ==
    /\ Done("detailLoader")
    /\ GenericFailure(postsData)
    /\ outcome.kind = "throw"

\* C9: in the profile-edit action, when the PATCH call or the decoding of
\* its response throws, the action returns {error} with the exception's
\* message, or the fallback 'Failed to update profile' when the thrown
\* value is no Error; it neither redirects nor rethrows.
C9_TransportExceptionReturned ==
    Done("editAction") /\ caught # NoException =>
        /\ outcome.kind = "error"
        /\ caught.isError => outcome.message = caught.message
        /\ ~caught.isError => outcome.message = "Failed to update profile"
        /\ outcome.location = <<>>

C9_Witness ==
    /\ Done("editAction")
    /\ response.received
    /\ caught.isError
    /\ outcome = FormError(caught.message)

====
